---- MODULE Spec2Model ----
(***************************************************************************)
(* Model of the provisions proof engine (jakecraige/provisions).           *)
(*                                                                         *)
(* Abstractions, stated once:                                              *)
(*  - The scalar field is Z_q for a small prime q (CURVE_ORDER); the code  *)
(*    uses the 256-bit secp256k1 group order.                              *)
(*  - A secp256k1 PublicKey is modelled by its representation a*G + b*H    *)
(*    over the two independent generators, the pair <<a, b>> # <<0, 0>>    *)
(*    (nobody knows log_G H, so two honest points are equal exactly when   *)
(*    their pairs are equal).  A Point is the code's struct: a PublicKey   *)
(*    plus the `infinity` flag; the PublicKey under a set flag is stale.   *)
(*  - A Rust panic inside point arithmetic is the poisoned point           *)
(*    PanicPoint, which every later operation propagates; an operation     *)
(*    that ends poisoned has outcome "panic".                              *)
(*  - SHA-256 inside compute_challenge is a fixed but unknown function:    *)
(*    a keyed mixing function of the hashed PublicKeys into the nonzero    *)
(*    scalars, the key (hkey) chosen once in Init.                         *)
(*  - Field256::rand() returns any scalar; the model enumerates the draws  *)
(*    over Rand, which holds 0 and the values around 0 and q.              *)
(***************************************************************************)
EXTENDS Integers, Sequences, FiniteSets, TLC

VARIABLES pc, hkey, rngCalls, result, binput, bproof, tampered,
          sinput, sproof, lin, lacc, lproof, lquery, assets, liabs, solv,
          ainput, aproof, wire, decoded, alg, ds

vars == <<pc, hkey, rngCalls, result, binput, bproof, tampered,
          sinput, sproof, lin, lacc, lproof, lquery, assets, liabs, solv,
          ainput, aproof, wire, decoded, alg, ds>>

binaryVars == <<binput, bproof, tampered>>
schnorrVars == <<sinput, sproof>>
liabilityVars == <<lin, lacc, lproof, lquery>>
solvencyVars == <<assets, liabs, solv>>
assetVars == <<ainput, aproof>>
codecVars == <<wire, decoded>>
algebraVars == <<alg>>
builderVars == <<ds>>

(***************************************************************************)
(* Bounds of the enumeration.                                              *)
(***************************************************************************)
\* rand() draws are enumerated over 0..MaxRand and q-MaxRand..q-1
MaxRand == 2
\* hash keys 0..MaxHashKey
MaxHashKey == 2

(***************************************************************************)
(* Scaled program constants.                                               *)
(***************************************************************************)
\* secp256k1 CURVE_ORDER (Field256::p), scaled to a small prime
CURVE_ORDER == 17
\* bits per byte of BigUint::to_bytes_be (u8 has 8), scaled
ByteBits == 2
\* const BALANCE_BITS: usize = 51, scaled to two bytes: the least width at
\* which the second byte of a balance contributes more than one bit
BALANCE_BITS == 4

None == "none"

(***************************************************************************)
(* fields/field256.rs                                                      *)
(***************************************************************************)
p == CURVE_ORDER

Fq == 0 .. (p - 1)

Rand == {v \in Fq : v <= MaxRand \/ v >= p - MaxRand}

\* Field256::new: value.mod_floor(p)
Field256_new(value) == value % p

\* From<BigInt>/From<i8>/From<i32>: mod_floor of a signed value
Field256_from(value) == Field256_new(value % p)

is_zero(a) == a = 0

\* mutant of is_binary: an off-by-one bound (value <= 2)
is_binary_mut(a) == a = 0 \/ a = 1 \/ a = 2

is_binary(a) == a = 0 \/ a = 1

FAdd(a, b) == Field256_new((a + b) % p)

FMul(a, b) == Field256_new((a * b) % p)

FNeg(a) == Field256_new(p - a)

\* mutant of FSub: the wrapped difference is not reduced
FSub_mut(a, b) ==
    IF b < a THEN a - b
    ELSE p - (b - a)

FSub(a, b) ==
    IF b < a THEN Field256_new(a - b)
    ELSE Field256_new(p - (b - a))

\* Field256::neg_one() is called by point_inverse but not defined in
\* field256.rs; it is the scalar -1
neg_one == Field256_from(-1)

(***************************************************************************)
(* secp256k1.rs                                                            *)
(***************************************************************************)
PanicPoint == [pk |-> <<0, 0>>, infinity |-> FALSE]

Panicked(P) == P.pk = <<0, 0>>

PointG == [pk |-> <<1, 0>>, infinity |-> FALSE]

\* lib.rs h(): Point::from_hash(b"PROVISIONS"), independent of G
PointH == [pk |-> <<0, 1>>, infinity |-> FALSE]

\* Point::infinity(): the generator with the flag set
Point_infinity == [PointG EXCEPT !.infinity = TRUE]

\* PublicKey::mul_assign by a scalar in 1..q-1
pk_mul(pk, n) == <<(pk[1] * n) % p, (pk[2] * n) % p>>

\* PublicKey::combine; <<0,0>> is the error (sum is the point at infinity)
pk_combine(a, b) == <<(a[1] + b[1]) % p, (a[2] + b[2]) % p>>

\* Point::mul / point_mul
point_mul(P, n) ==
    IF Panicked(P) THEN PanicPoint
    ELSE IF is_zero(n) THEN [P EXCEPT !.infinity = TRUE]
    ELSE IF P.infinity THEN P
    ELSE [P EXCEPT !.pk = pk_mul(P.pk, n)]

\* Point::add / point_add; .expect("invalid addition") panics
point_add(P, Q) ==
    IF Panicked(P) \/ Panicked(Q) THEN PanicPoint
    ELSE IF P.infinity THEN [pk |-> Q.pk, infinity |-> Q.infinity]
    ELSE IF Q.infinity THEN P
    ELSE IF pk_combine(P.pk, Q.pk) = <<0, 0>> THEN PanicPoint
    ELSE [pk |-> pk_combine(P.pk, Q.pk), infinity |-> FALSE]

pedersen_commitment(g, x, h, r) == point_add(point_mul(g, x), point_mul(h, r))

point_mul_add(g, x, h) == point_add(point_mul(g, x), h)

RECURSIVE point_sum_from(_, _)
point_sum_from(out, points) ==
    IF points = <<>> THEN out
    ELSE point_sum_from(point_add(out, Head(points)), Tail(points))

point_sum(points) == point_sum_from(Point_infinity, points)

point_inverse(g) == point_mul(g, neg_one)

(***************************************************************************)
(* proofs/mod.rs: compute_challenge hashes serialize_uncompressed() of     *)
(* each point, which reads the PublicKey and never the infinity flag.      *)
(***************************************************************************)
HashKeys == 0 .. MaxHashKey

RECURSIVE Digest(_, _)
Digest(points, i) ==
    IF points = <<>> THEN 0
    ELSE (i * (3 * Head(points).pk[1] + 5 * Head(points).pk[2] + 1)
          + Digest(Tail(points), i + 1)) % (p - 1)

compute_challenge(points, key) ==
    Field256_new(1 + ((key + Digest(points, 1)) % (p - 1)))

AnyPanicked(points) == \E i \in 1 .. Len(points) : Panicked(points[i])

(***************************************************************************)
(* proofs/binary.rs                                                        *)
(***************************************************************************)
NoProof == [kind |-> "none"]

BinaryProof_create(x, y, g, h, u0, u1, cf, key) ==
    LET l == pedersen_commitment(g, x, h, y)
        a0 == pedersen_commitment(h, u0, g, FNeg(FMul(x, cf)))
        a1 == pedersen_commitment(h, u1, g, FMul(FSub(1, x), cf))
        c == compute_challenge(<<g, h, l, a0, a1>>, key)
        c1 == FAdd(FMul(x, FSub(c, cf)), FMul(FSub(1, x), cf))
        r0 == FAdd(u0, FMul(FSub(c, c1), y))
        r1 == FAdd(u1, FMul(c1, y))
    IN [kind |-> "binary", g |-> g, h |-> h, l |-> l, a0 |-> a0, a1 |-> a1,
        c1 |-> c1, r0 |-> r0, r1 |-> r1]

\* a panic while create computes l, a0 or a1
BinaryProof_create_panics(bp) ==
    AnyPanicked(<<bp.l, bp.a0, bp.a1>>)

BinaryProof_verify(bp, key) ==
    LET c == compute_challenge(<<bp.g, bp.h, bp.l, bp.a0, bp.a1>>, key)
        p1_lhs == point_mul(bp.h, bp.r0)
        p1_rhs == point_add(bp.a0, point_mul(bp.l, FSub(c, bp.c1)))
        p2_lhs == point_mul(bp.h, bp.r1)
        p2_rhs == point_add(bp.a1,
                            point_mul(point_add(bp.l, point_inverse(bp.g)), bp.c1))
    IN IF AnyPanicked(<<p1_lhs, p1_rhs, p2_lhs, p2_rhs>>) THEN "panic"
       ELSE IF p1_lhs = p1_rhs /\ p2_lhs = p2_rhs THEN "true"
       ELSE "false"

(***************************************************************************)
(* proofs/schnorr.rs                                                       *)
(***************************************************************************)
SchnorrProof_create(x, g, y, r, key) ==
    LET t == point_mul(g, r)
        c == compute_challenge(<<g, y, t>>, key)
        s == FAdd(r, FMul(c, x))
    IN [kind |-> "schnorr", s |-> s, g |-> g, y |-> y, t |-> t]

SchnorrProof_verify(sp, key) ==
    LET lhs == point_mul(sp.g, sp.s)
        rhs == point_add(sp.t,
                         point_mul(sp.y, compute_challenge(<<sp.g, sp.y, sp.t>>, key)))
    IN IF AnyPanicked(<<lhs, rhs>>) THEN "panic"
       ELSE IF lhs = rhs THEN "true"
       ELSE "false"

(***************************************************************************)
(* util.rs, bigint.rs                                                      *)
(***************************************************************************)
RECURSIVE Pow2(_)
Pow2(n) == IF n = 0 THEN 1 ELSE 2 * Pow2(n - 1)

\* BigUint::to_bytes_be: big-endian bytes without leading zeros, [0] for 0
RECURSIVE to_bytes_be(_)
to_bytes_be(value) ==
    IF value < Pow2(ByteBits) THEN <<value>>
    ELSE Append(to_bytes_be(value \div Pow2(ByteBits)), value % Pow2(ByteBits))

bit_at_index(index, byte) == (byte \div Pow2(index)) % 2

byte_to_bits_le(byte) == [i \in 1 .. ByteBits |-> bit_at_index(i - 1, byte)]

\* bytes.iter().flat_map(|byte| byte_to_bits_le(*byte))
RECURSIVE flat_map_bits(_)
flat_map_bits(bytes) ==
    IF bytes = <<>> THEN <<>>
    ELSE byte_to_bits_le(Head(bytes)) \o flat_map_bits(Tail(bytes))

\* biguint_to_bits_le without .take(len)
biguint_to_bits_le_mut(value, len) ==
    LET bits == flat_map_bits(to_bytes_be(value))
    IN bits \o [i \in 1 .. (len - Len(bits)) |-> 0]

biguint_to_bits_le(value, len) ==
    LET all == flat_map_bits(to_bytes_be(value))
        bits == SubSeq(all, 1, IF Len(all) < len THEN Len(all) ELSE len)
    IN bits \o [i \in 1 .. (len - Len(bits)) |-> 0]

\* the number a little-endian bit vector stands for
RECURSIVE bits_value(_)
bits_value(bits) ==
    IF bits = <<>> THEN 0 ELSE Head(bits) + 2 * bits_value(Tail(bits))

(***************************************************************************)
(* proofs/liability.rs                                                     *)
(***************************************************************************)
\* SHA-256 of a byte string, collision-free: the tagged preimage
Sha256(data) == [sha256 |-> data]

compute_cid(identifier, n) == Sha256(identifier \o to_bytes_be(n))

\* the closure of fold_with for the bit at index i (0-based): rnd holds the
\* draws r_i and, inside BinaryProof::create, u0, u1, cf
fold_step(acc, i, bit, rnd, g, h, key) ==
    [r |-> acc.r + rnd.r * Pow2(i),
     bits |-> Append(acc.bits,
                     BinaryProof_create(Field256_from(bit), rnd.r, g, h,
                                        rnd.u0, rnd.u1, rnd.cf, key))]

initial_value == [r |-> 0, bits |-> <<>>]

RECURSIVE fold_bits(_, _, _, _, _, _)
fold_bits(acc, bits, rnds, g, h, key) ==
    IF Len(acc.bits) = Len(bits) THEN acc
    ELSE fold_bits(fold_step(acc, Len(acc.bits), bits[Len(acc.bits) + 1],
                             rnds[Len(acc.bits) + 1], g, h, key),
                   bits, rnds, g, h, key)

\* the struct built at the end of LiabilityProof::create
LiabilityProof_new(identifier, acc, n, g, h) ==
    [kind |-> "liability", g |-> g, h |-> h, cid |-> compute_cid(identifier, n),
     bits |-> acc.bits, n |-> n, r |-> acc.r]

LiabilityProof_create(identifier, balance, g, h, rnds, n, key) ==
    LiabilityProof_new(identifier,
                       fold_bits(initial_value,
                                 biguint_to_bits_le(balance, BALANCE_BITS),
                                 rnds, g, h, key),
                       n, g, h)

\* self.bits.iter().all(|bit| bit.verify()): stops at the first false
RECURSIVE all_bits_verify(_, _)
all_bits_verify(bits, key) ==
    IF bits = <<>> THEN "true"
    ELSE IF BinaryProof_verify(Head(bits), key) = "true"
         THEN all_bits_verify(Tail(bits), key)
         ELSE BinaryProof_verify(Head(bits), key)

LiabilityProof_verify(lp, key) == all_bits_verify(lp.bits, key)

RECURSIVE z_from(_, _, _)
z_from(z, bits, i) ==
    IF i >= Len(bits) THEN z
    ELSE z_from(point_add(z, point_mul(bits[i + 1].l, Field256_new(Pow2(i)))),
                bits, i + 1)

LiabilityProof_z(lp) == z_from(Point_infinity, lp.bits, 0)

LiabilityProof_verify_as_customer(lp, identifier, balance) ==
    IF compute_cid(identifier, lp.n) # lp.cid THEN "false"
    ELSE LET rhs == pedersen_commitment(lp.g, Field256_new(balance),
                                        lp.h, Field256_new(lp.r))
             z == LiabilityProof_z(lp)
         IN IF AnyPanicked(<<rhs, z>>) THEN "panic"
            ELSE IF z = rhs THEN "true"
            ELSE "false"

(***************************************************************************)
(* proofs/asset.rs                                                         *)
(***************************************************************************)
\* x_is_some, x: the Option<Field256> private key; rnd holds the draws v, t,
\* u1..u4 and, inside BinaryProof::create, u0b, u1b, cfb
AssetProof_create(x_is_some, x, y, bal, g, h, rnd, key) ==
    LET b == point_mul(g, Field256_new(bal))
        s == IF x_is_some THEN 1 ELSE 0
        xhat == IF x_is_some THEN x ELSE 0
        balance_comm == BinaryProof_create(s, rnd.v, b, h, rnd.u0b, rnd.u1b, rnd.cfb, key)
        l == pedersen_commitment(y, s, h, rnd.t)
        a1 == pedersen_commitment(b, rnd.u1, h, rnd.u2)
        a2 == pedersen_commitment(y, rnd.u1, h, rnd.u3)
        a3 == pedersen_commitment(g, rnd.u4, h, rnd.u3)
        c == compute_challenge(<<y, g, h, b, balance_comm.l, l, a1, a2, a3>>, key)
    IN [kind |-> "asset", g |-> g, h |-> h, y |-> y, b |-> b, l |-> l,
        a1 |-> a1, a2 |-> a2, a3 |-> a3,
        rs |-> FAdd(rnd.u1, FMul(c, s)),
        rv |-> FAdd(rnd.u2, FMul(c, rnd.v)),
        rt |-> FAdd(rnd.u3, FMul(c, rnd.t)),
        rxhat |-> FAdd(rnd.u4, FMul(c, xhat)),
        v |-> rnd.v,
        balance_comm |-> balance_comm]

p_ref(ap) == ap.balance_comm.l

\* the challenge recomputed by AssetProof::verify
AssetProof_c(ap, key) ==
    compute_challenge(<<ap.y, ap.g, ap.h, ap.b, p_ref(ap), ap.l, ap.a1, ap.a2, ap.a3>>,
                      key)

\* outcome of one equation `lhs == rhs` of a verify routine
check_eq(lhs, rhs) ==
    IF AnyPanicked(<<lhs, rhs>>) THEN "panic"
    ELSE IF lhs = rhs THEN "true"
    ELSE "false"

AssetProof_p1(ap, key) ==
    check_eq(pedersen_commitment(ap.b, ap.rs, ap.h, ap.rv),
             point_mul_add(p_ref(ap), AssetProof_c(ap, key), ap.a1))

AssetProof_p2(ap, key) ==
    check_eq(pedersen_commitment(ap.y, ap.rs, ap.h, ap.rt),
             point_mul_add(ap.l, AssetProof_c(ap, key), ap.a2))

AssetProof_p3(ap, key) ==
    check_eq(pedersen_commitment(ap.g, ap.rxhat, ap.h, ap.rt),
             point_mul_add(ap.l, AssetProof_c(ap, key), ap.a3))

\* the four inner checks, in the order verify evaluates them; all four are
\* evaluated before `protocol_verified && balance_verified`
AssetProof_checks(ap, key) ==
    <<AssetProof_p1(ap, key), AssetProof_p2(ap, key), AssetProof_p3(ap, key),
      BinaryProof_verify(ap.balance_comm, key)>>

AssetProof_verify(ap, key) ==
    LET cs == AssetProof_checks(ap, key)
    IN IF \E i \in 1 .. 4 : cs[i] = "panic" THEN "panic"
       ELSE IF \A i \in 1 .. 4 : cs[i] = "true" THEN "true"
       ELSE "false"

\* a panic while create computes b, the inner proof, l, a1, a2 or a3
AssetProof_create_panics(ap) ==
    \/ AnyPanicked(<<ap.b, ap.l, ap.a1, ap.a2, ap.a3>>)
    \/ BinaryProof_create_panics(ap.balance_comm)

(***************************************************************************)
(* proofs/solvency.rs                                                      *)
(***************************************************************************)
RECURSIVE SumSeq(_)
SumSeq(xs) == IF xs = <<>> THEN 0 ELSE Head(xs) + SumSeq(Tail(xs))

z_solvency_of(asset_proofs, liability_proofs) ==
    LET z_assets == point_sum([i \in 1 .. Len(asset_proofs) |-> p_ref(asset_proofs[i])])
        z_liabilities ==
            point_sum([i \in 1 .. Len(liability_proofs) |->
                           LiabilityProof_z(liability_proofs[i])])
    IN point_add(z_assets, point_mul(z_liabilities, Field256_from(-1)))

k_of(asset_proofs, liability_proofs) ==
    LET v_sum == SumSeq([i \in 1 .. Len(asset_proofs) |-> asset_proofs[i].v])
        r_sum == SumSeq([i \in 1 .. Len(liability_proofs) |-> liability_proofs[i].r])
    IN Field256_from(v_sum - r_sum)

\* nonce: the draw made inside SchnorrProof::create
SolvencyProof_create(asset_proofs, liability_proofs, h, nonce, key) ==
    [kind |-> "solvency",
     schnorr |-> SchnorrProof_create(k_of(asset_proofs, liability_proofs), h,
                                     z_solvency_of(asset_proofs, liability_proofs),
                                     nonce, key)]

\* a panic in point_sum, z() or point_add while create runs
SolvencyProof_create_panics(sv) == AnyPanicked(<<sv.schnorr.y, sv.schnorr.t>>)

SolvencyProof_verify(sv, key) == SchnorrProof_verify(sv.schnorr, key)

(***************************************************************************)
(* Serialization.  A byte holds ByteBits bits.  The Serialize/Deserialize  *)
(* impls of Field256, Point and BinaryProof and biguint_to_bytes_be are    *)
(* called by the proofs but are not part of the sources; they follow the   *)
(* wire formats of the specification and the sizes used by the callers:   *)
(* scalar = FIELD_BYTES big-endian bytes, point = compressed encoding of   *)
(* the PublicKey (no identity flag), binary proof = its five points and    *)
(* three scalars.                                                          *)
(***************************************************************************)
\* const FIELD_BYTES: usize = 32, scaled: the least number of bytes that
\* holds every scalar below q
FIELD_BYTES == 3

Zeros(n) == [i \in 1 .. n |-> 0]

\* BigUint::from_bytes_be
RECURSIVE BigUint_from_bytes_be(_)
BigUint_from_bytes_be(bytes) ==
    IF bytes = <<>> THEN 0
    ELSE BigUint_from_bytes_be(SubSeq(bytes, 1, Len(bytes) - 1)) * Pow2(ByteBits)
         + bytes[Len(bytes)]

\* mutant of to_big_endian: the bytes are written from index 0 (no offset)
to_big_endian_mut(value) ==
    to_bytes_be(value) \o Zeros(FIELD_BYTES - Len(to_bytes_be(value)))

\* Field256::to_big_endian; <<>> stands for the panic on an over-long value
to_big_endian(value) ==
    IF Len(to_bytes_be(value)) > FIELD_BYTES THEN <<>>
    ELSE Zeros(FIELD_BYTES - Len(to_bytes_be(value))) \o to_bytes_be(value)

Field256_from_bytes_be(bytes) == Field256_new(BigUint_from_bytes_be(bytes))

Field256_serialize(a) == to_big_endian(a)

Field256_deserialize(bytes) == Field256_from_bytes_be(bytes)

\* biguint_to_bytes_be(value, len): left-padded to len bytes
biguint_to_bytes_be(value, len) ==
    Zeros(len - Len(to_bytes_be(value))) \o to_bytes_be(value)

\* length of an encoded point (33 in the code)
POINT_BYTES == 2 * FIELD_BYTES

\* the encoding reads the PublicKey only
Point_serialize(P) == to_big_endian(P.pk[1]) \o to_big_endian(P.pk[2])

\* PublicKey::from_slice; a parsed point is never flagged as the identity,
\* and bytes that encode no PublicKey are a parse failure
Point_deserialize(bytes) ==
    [pk |-> <<BigUint_from_bytes_be(SubSeq(bytes, 1, FIELD_BYTES)),
              BigUint_from_bytes_be(SubSeq(bytes, FIELD_BYTES + 1, POINT_BYTES))>>,
     infinity |-> FALSE]

\* bytes[from..to) of a buffer
Slice(bytes, from, to) == SubSeq(bytes, from + 1, to)

\* length of an encoded binary proof: 261 = 5 * 33 + 3 * 32 in the code,
\* all eight fields of the struct
BINARY_BYTES == 5 * POINT_BYTES + 3 * FIELD_BYTES

BinaryProof_serialize(bp) ==
    Point_serialize(bp.g) \o Point_serialize(bp.h)
    \o Point_serialize(bp.l) \o Point_serialize(bp.a0) \o Point_serialize(bp.a1)
    \o Field256_serialize(bp.c1) \o Field256_serialize(bp.r0)
    \o Field256_serialize(bp.r1)

BinaryProof_deserialize(bytes) ==
    LET pt(i) == Point_deserialize(Slice(bytes, i * POINT_BYTES, (i + 1) * POINT_BYTES))
        fd(i) == Field256_deserialize(Slice(bytes, 5 * POINT_BYTES + i * FIELD_BYTES,
                                            5 * POINT_BYTES + (i + 1) * FIELD_BYTES))
    IN [kind |-> "binary", g |-> pt(0), h |-> pt(1), l |-> pt(2), a0 |-> pt(3),
        a1 |-> pt(4), c1 |-> fd(0), r0 |-> fd(1), r1 |-> fd(2)]

\* length of an encoded asset proof (619 in the code)
ASSET_BYTES == 6 * POINT_BYTES + 5 * FIELD_BYTES + BINARY_BYTES

\* the points handed to Point::serialize by AssetProof::serialize, in order
AssetProof_wire_points(ap) ==
    <<ap.y, ap.b, ap.l, ap.a1, ap.a2, ap.a3,
      ap.balance_comm.g, ap.balance_comm.h, ap.balance_comm.l,
      ap.balance_comm.a0, ap.balance_comm.a1>>

AssetProof_serialize(ap) ==
    Point_serialize(ap.y) \o Point_serialize(ap.b) \o Point_serialize(ap.l)
    \o Point_serialize(ap.a1) \o Point_serialize(ap.a2) \o Point_serialize(ap.a3)
    \o Field256_serialize(ap.rs) \o Field256_serialize(ap.rv)
    \o Field256_serialize(ap.rt) \o Field256_serialize(ap.rxhat)
    \o Field256_serialize(ap.v)
    \o BinaryProof_serialize(ap.balance_comm)

AssetProof_deserialize(bytes) ==
    LET pt(i) == Point_deserialize(Slice(bytes, i * POINT_BYTES, (i + 1) * POINT_BYTES))
        fd(i) == Field256_deserialize(Slice(bytes, 6 * POINT_BYTES + i * FIELD_BYTES,
                                            6 * POINT_BYTES + (i + 1) * FIELD_BYTES))
    IN [kind |-> "asset", g |-> PointG, h |-> PointH,
        y |-> pt(0), b |-> pt(1), l |-> pt(2), a1 |-> pt(3), a2 |-> pt(4), a3 |-> pt(5),
        rs |-> fd(0), rv |-> fd(1), rt |-> fd(2), rxhat |-> fd(3), v |-> fd(4),
        balance_comm |->
            BinaryProof_deserialize(Slice(bytes, 6 * POINT_BYTES + 5 * FIELD_BYTES,
                                          ASSET_BYTES))]

\* a parse failure of one of the points of a decoded asset proof
AssetProof_deserialize_panics(ap) ==
    AnyPanicked(AssetProof_wire_points(ap))

\* the 32 bytes of a SHA-256 digest: byte i of the digest of that preimage
Digest_bytes(digest) == [i \in 1 .. FIELD_BYTES |-> [digest |-> digest, index |-> i]]

RECURSIVE flatten_bits(_)
flatten_bits(bits) ==
    IF bits = <<>> THEN <<>>
    ELSE BinaryProof_serialize(Head(bits)) \o flatten_bits(Tail(bits))

LiabilityProof_serialize(lp) ==
    Digest_bytes(lp.cid) \o flatten_bits(lp.bits)
    \o biguint_to_bytes_be(lp.n, FIELD_BYTES) \o to_bytes_be(lp.r)

\* slice.chunks(size): consecutive pieces of size entries, the last one
\* shorter when the length is no multiple of size
RECURSIVE chunks(_, _)
chunks(bytes, size) ==
    IF bytes = <<>> THEN <<>>
    ELSE IF Len(bytes) <= size THEN <<bytes>>
    ELSE <<SubSeq(bytes, 1, size)>> \o chunks(SubSeq(bytes, size + 1, Len(bytes)), size)

\* Deserialize for LiabilityProof: cid, the bit proofs of bytes[32..13343]
\* in chunks of 261, n of bytes[13343..13375] and r of the rest; NoProof
\* stands for the panic of a slice that is out of range
LiabilityProof_deserialize(bytes) ==
    LET bits_end == FIELD_BYTES + BALANCE_BITS * BINARY_BYTES
        pieces == chunks(Slice(bytes, FIELD_BYTES, bits_end), BINARY_BYTES)
    IN IF Len(bytes) < bits_end + FIELD_BYTES THEN NoProof
       ELSE [kind |-> "liability", g |-> PointG, h |-> PointH,
             cid |-> Slice(bytes, 0, FIELD_BYTES),
             bits |-> [k \in 1 .. Len(pieces) |-> BinaryProof_deserialize(pieces[k])],
             n |-> BigUint_from_bytes_be(Slice(bytes, bits_end, bits_end + FIELD_BYTES)),
             r |-> BigUint_from_bytes_be(Slice(bytes, bits_end + FIELD_BYTES,
                                               Len(bytes)))]

\* the longest encoding of r (39 bytes in the code): r is at most
\* (q - 1) * (2^BALANCE_BITS - 1)
R_BYTES == 4

\* the documented length of an encoded liability proof: cid, the bit
\* proofs, n and r
LIABILITY_BYTES == FIELD_BYTES + BALANCE_BITS * BINARY_BYTES + FIELD_BYTES + R_BYTES

(***************************************************************************)
(* Initial state: nothing created yet; the hash function is fixed.         *)
(***************************************************************************)
Init ==
    /\ pc = "start"
    /\ hkey \in HashKeys
    /\ rngCalls = 0
    /\ result = None
    /\ binput = NoProof
    /\ bproof = NoProof
    /\ tampered = FALSE
    /\ sinput = NoProof
    /\ sproof = NoProof
    /\ lin = NoProof
    /\ lacc = NoProof
    /\ lproof = NoProof
    /\ lquery = NoProof
    /\ assets = <<>>
    /\ liabs = <<>>
    /\ solv = NoProof
    /\ ainput = NoProof
    /\ aproof = NoProof
    /\ wire = <<>>
    /\ decoded = NoProof
    /\ alg = NoProof
    /\ ds = NoProof

(***************************************************************************)
(* BinaryProof: create, verify, and a verifier handed a proof whose r1     *)
(* was replaced.                                                           *)
(***************************************************************************)
\* committed values tried: 0, 1 and the non-binary 2 and q-1
BinaryXs == {0, 1, 2, p - 1}

\* generator pairs (g, h): (G, H) as in lib.rs, (2G, H)
BinaryGens == {PointG, point_mul(PointG, 2)}

BinaryCreate ==
    /\ pc = "start"
    /\ \E x \in BinaryXs, y \in Fq, g \in BinaryGens, u0 \in Rand, u1 \in Rand, cf \in Rand :
          /\ binput' = [kind |-> "binary", x |-> x, y |-> y, g |-> g, h |-> PointH]
          /\ IF ~is_binary(x)
             THEN /\ pc' = "failed"
                  /\ result' = "panic"
                  /\ bproof' = NoProof
                  /\ rngCalls' = rngCalls
             ELSE /\ pc' = "created"
                  /\ result' = None
                  /\ bproof' = BinaryProof_create(x, y, g, PointH, u0, u1, cf, hkey)
                  /\ rngCalls' = rngCalls + 3
    /\ UNCHANGED <<assetVars, codecVars, algebraVars, builderVars,
                   hkey, tampered, schnorrVars, liabilityVars, solvencyVars>>

BinaryTamper ==
    /\ pc = "created"
    /\ ~tampered
    /\ \E r1 \in Fq \ {bproof.r1} : bproof' = [bproof EXCEPT !.r1 = r1]
    /\ tampered' = TRUE
    /\ UNCHANGED <<assetVars, codecVars, algebraVars, builderVars,
                   pc, hkey, rngCalls, result, binput, schnorrVars, liabilityVars,
                   solvencyVars>>

BinaryVerify ==
    /\ pc = "created"
    /\ result' = BinaryProof_verify(bproof, hkey)
    /\ pc' = "verified"
    /\ UNCHANGED <<assetVars, codecVars, algebraVars, builderVars,
                   hkey, rngCalls, binaryVars, schnorrVars, liabilityVars, solvencyVars>>

NextBinary == BinaryCreate \/ BinaryTamper \/ BinaryVerify

SpecBinary == Init /\ [][NextBinary]_vars

(***************************************************************************)
(* SchnorrProof: create for y = x*g, then verify.                          *)
(***************************************************************************)
SchnorrGens == {PointG, PointH}

SchnorrCreate ==
    /\ pc = "start"
    /\ \E x \in Fq, g \in SchnorrGens, r \in Fq :
          /\ sinput' = [kind |-> "schnorr", x |-> x, g |-> g, r |-> r]
          /\ sproof' = SchnorrProof_create(x, g, point_mul(g, x), r, hkey)
    /\ rngCalls' = rngCalls + 1
    /\ pc' = "created"
    /\ UNCHANGED <<assetVars, codecVars, algebraVars, builderVars,
                   hkey, result, binaryVars, liabilityVars, solvencyVars>>

SchnorrVerify ==
    /\ pc = "created"
    /\ result' = SchnorrProof_verify(sproof, hkey)
    /\ pc' = "verified"
    /\ UNCHANGED <<assetVars, codecVars, algebraVars, builderVars,
                   hkey, rngCalls, binaryVars, schnorrVars, liabilityVars, solvencyVars>>

NextSchnorr == SchnorrCreate \/ SchnorrVerify

SpecSchnorr == Init /\ [][NextSchnorr]_vars

(***************************************************************************)
(* LiabilityProof: create (one action per fold step), public verify and    *)
(* customer verification.                                                  *)
(***************************************************************************)
\* balances above the 2^BALANCE_BITS range that are tried
MaxOver == 1

\* identifiers, as byte strings
Ids == {<<1>>, <<2>>}

\* balances tried: 0, the two-byte values 4, 6 and 2^BALANCE_BITS - 1, and
\* the values above the range
LiabBalances ==
    {0, 4, 6} \cup (Pow2(BALANCE_BITS) - 1) .. (Pow2(BALANCE_BITS) - 1 + MaxOver)

\* the draws made inside BinaryProof::create for a balance bit
AuxRand == {1}

BitRnds == [r : Rand, u0 : AuxRand, u1 : AuxRand, cf : AuxRand]

LiabilityStart ==
    /\ pc = "start"
    /\ \E identifier \in Ids, balance \in LiabBalances :
          lin' = [kind |-> "liability", identifier |-> identifier, balance |-> balance,
                  bits |-> biguint_to_bits_le(balance, BALANCE_BITS)]
    /\ lacc' = initial_value
    /\ pc' = "fold"
    /\ UNCHANGED <<assetVars, codecVars, algebraVars, builderVars,
                   hkey, rngCalls, result, lproof, lquery, binaryVars, schnorrVars,
                   solvencyVars>>

LiabilityFoldStep ==
    /\ pc = "fold"
    /\ Len(lacc.bits) < Len(lin.bits)
    /\ \E rnd \in BitRnds :
          lacc' = fold_step(lacc, Len(lacc.bits), lin.bits[Len(lacc.bits) + 1], rnd,
                            PointG, PointH, hkey)
    /\ rngCalls' = rngCalls + 4
    /\ UNCHANGED <<assetVars, codecVars, algebraVars, builderVars,
                   pc, hkey, result, lin, lproof, lquery, binaryVars, schnorrVars,
                   solvencyVars>>

LiabilityFinish ==
    /\ pc = "fold"
    /\ Len(lacc.bits) = Len(lin.bits)
    /\ \E n \in Rand :
          lproof' = LiabilityProof_new(lin.identifier, lacc, n, PointG, PointH)
    /\ rngCalls' = rngCalls + 1
    /\ pc' = "created"
    /\ UNCHANGED <<assetVars, codecVars, algebraVars, builderVars,
                   hkey, result, lin, lacc, lquery, binaryVars, schnorrVars, solvencyVars>>

LiabilityVerify ==
    /\ pc = "created"
    /\ result' = LiabilityProof_verify(lproof, hkey)
    /\ lquery' = [kind |-> "public"]
    /\ pc' = "verified"
    /\ UNCHANGED <<assetVars, codecVars, algebraVars, builderVars,
                   hkey, rngCalls, lin, lacc, lproof, binaryVars, schnorrVars, solvencyVars>>

LiabilityVerifyAsCustomer ==
    /\ pc = "created"
    /\ \E identifier \in Ids, balance \in {lin.balance, lin.balance + 1} :
          /\ lquery' = [kind |-> "customer", identifier |-> identifier,
                        balance |-> balance]
          /\ result' = LiabilityProof_verify_as_customer(lproof, identifier, balance)
    /\ pc' = "verified"
    /\ UNCHANGED <<assetVars, codecVars, algebraVars, builderVars,
                   hkey, rngCalls, lin, lacc, lproof, binaryVars, schnorrVars, solvencyVars>>

\* let bytes = proof.serialize()
LiabilitySerialize ==
    /\ pc = "created"
    /\ wire' = LiabilityProof_serialize(lproof)
    /\ pc' = "serialized"
    /\ UNCHANGED <<assetVars, decoded, algebraVars, builderVars,
                   hkey, rngCalls, result, liabilityVars, binaryVars, schnorrVars,
                   solvencyVars>>

\* LiabilityProof::deserialize(&bytes) of the stored bytes, whole or cut
\* off after the bit proofs
LiabilityDeserialize ==
    /\ pc = "serialized"
    /\ lproof.kind = "liability"
    /\ \E bytes \in {wire, Slice(wire, 0, FIELD_BYTES + BALANCE_BITS * BINARY_BYTES)} :
          LET lp == LiabilityProof_deserialize(bytes)
          IN /\ wire' = bytes
             /\ decoded' = lp
             /\ IF \/ lp = NoProof
                   \/ \E k \in 1 .. Len(lp.bits) :
                         AnyPanicked(<<lp.bits[k].g, lp.bits[k].h, lp.bits[k].l,
                                       lp.bits[k].a0, lp.bits[k].a1>>)
                THEN /\ result' = "panic"
                     /\ pc' = "failed"
                ELSE /\ result' = None
                     /\ pc' = "decoded"
    /\ UNCHANGED <<assetVars, algebraVars, builderVars,
                   hkey, rngCalls, liabilityVars, binaryVars, schnorrVars,
                   solvencyVars>>

NextLiability ==
    \/ LiabilityStart
    \/ LiabilityFoldStep
    \/ LiabilityFinish
    \/ LiabilityVerify
    \/ LiabilityVerifyAsCustomer
    \/ LiabilitySerialize

SpecLiability == Init /\ [][NextLiability]_vars

(***************************************************************************)
(* LiabilityProof::create as rayon runs it: the bit positions are split    *)
(* into contiguous chunks, every chunk is folded by its own task from a    *)
(* clone of initial_value, and finished neighbours are reduced pairwise.   *)
(* The created proof is then stored as bytes and read back.                *)
(***************************************************************************)
\* a reduce_with closure that appends the left result to the right one
reduce_step_mut(acc, part) ==
    [r |-> acc.r + part.r, bits |-> part.bits \o acc.bits]

\* the closure of reduce_with: the left result absorbs the right one
reduce_step(acc, part) ==
    [r |-> acc.r + part.r, bits |-> acc.bits \o part.bits]

\* par_iter().enumerate(): a split of the positions at the cut points; lin
\* records the draw made for each position and whether a position was
\* folded before a lower one
ParallelStart ==
    /\ pc = "start"
    /\ \E identifier \in {<<1>>}, balance \in LiabBalances,
          cuts \in SUBSET (1 .. (BALANCE_BITS - 1)) :
          LET bounds == {0, BALANCE_BITS} \cup cuts
              nth(k) == CHOOSE b \in bounds : Cardinality({c \in bounds : c < b}) = k
          IN /\ lin' = [kind |-> "parallel", identifier |-> identifier,
                        balance |-> balance,
                        bits |-> biguint_to_bits_le(balance, BALANCE_BITS),
                        rnds |-> [i \in 1 .. BALANCE_BITS |->
                                     [r |-> 0, u0 |-> 1, u1 |-> 1, cf |-> 1]],
                        chunks |-> Cardinality(cuts) + 1,
                        out_of_order |-> FALSE]
             /\ lacc' = [k \in 1 .. (Cardinality(cuts) + 1) |->
                            [lo |-> nth(k - 1), hi |-> nth(k), next |-> nth(k - 1),
                             acc |-> initial_value]]
    /\ pc' = "parallel"
    /\ UNCHANGED <<assetVars, codecVars, algebraVars, builderVars,
                   hkey, rngCalls, result, lproof, lquery, binaryVars, schnorrVars,
                   solvencyVars>>

\* one call of the fold_with closure, by any task that has items left
ParallelFoldStep ==
    /\ pc = "parallel"
    /\ \E k \in 1 .. Len(lacc), rnd \in [r : {0, 1, p - 1}, u0 : AuxRand,
                                         u1 : AuxRand, cf : AuxRand] :
          /\ lacc[k].next < lacc[k].hi
          /\ lacc' = [lacc EXCEPT
                         ![k].acc = fold_step(@, lacc[k].next,
                                              lin.bits[lacc[k].next + 1], rnd,
                                              PointG, PointH, hkey),
                         ![k].next = @ + 1]
          /\ lin' = [lin EXCEPT
                        !.rnds[lacc[k].next + 1] = rnd,
                        !.out_of_order =
                            @ \/ \E j \in 1 .. (k - 1) : lacc[j].next < lacc[j].hi]
    /\ rngCalls' = rngCalls + 4
    /\ UNCHANGED <<assetVars, codecVars, algebraVars, builderVars,
                   pc, hkey, result, lproof, lquery, binaryVars, schnorrVars,
                   solvencyVars>>

\* one call of the reduce_with closure on two finished neighbours
ParallelReduce ==
    /\ pc = "parallel"
    /\ \E k \in 1 .. (Len(lacc) - 1) :
          /\ lacc[k].next = lacc[k].hi
          /\ lacc[k + 1].next = lacc[k + 1].hi
          /\ lacc' = SubSeq(lacc, 1, k - 1)
                     \o <<[lo |-> lacc[k].lo, hi |-> lacc[k + 1].hi,
                           next |-> lacc[k + 1].hi,
                           acc |-> reduce_step(lacc[k].acc, lacc[k + 1].acc)]>>
                     \o SubSeq(lacc, k + 2, Len(lacc))
    /\ UNCHANGED <<assetVars, codecVars, algebraVars, builderVars,
                   pc, hkey, rngCalls, result, lin, lproof, lquery, binaryVars,
                   schnorrVars, solvencyVars>>

\* .unwrap() of the one remaining result, then n, cid and the struct
ParallelFinish ==
    /\ pc = "parallel"
    /\ Len(lacc) = 1
    /\ lacc[1].next = lacc[1].hi
    /\ \E n \in {1} :
          lproof' = LiabilityProof_new(lin.identifier, lacc[1].acc, n, PointG, PointH)
    /\ rngCalls' = rngCalls + 1
    /\ pc' = "created"
    /\ UNCHANGED <<assetVars, codecVars, algebraVars, builderVars,
                   hkey, result, lin, lacc, lquery, binaryVars, schnorrVars, solvencyVars>>

NextParallel ==
    \/ ParallelStart
    \/ ParallelFoldStep
    \/ ParallelReduce
    \/ ParallelFinish
    \/ LiabilitySerialize
    \/ LiabilityDeserialize

SpecParallel == Init /\ [][NextParallel]_vars

(***************************************************************************)
(* SolvencyProof: the exchange creates an AssetProof per account and a     *)
(* LiabilityProof per customer, then the solvency proof over both lists,   *)
(* which is verified.                                                      *)
(***************************************************************************)
MaxAssets == 2
MaxLiabs == 1

\* account balances and in-range customer balances tried; 4, 6 and 9 take
\* two bytes
AssetBalances == {1, 9}
CustBalances == {4, 6, 9}

\* the draws that reach the solvency proof: v, the bit blindings, the nonce
SolvRand == {0, 1, p - 1}

AssetRnds ==
    [v : SolvRand, t : AuxRand, u1 : AuxRand, u2 : AuxRand, u3 : AuxRand,
     u4 : AuxRand, u0b : AuxRand, u1b : AuxRand, cfb : AuxRand]

\* the blinding of a balance bit is drawn from {0, 1}
SolvBitRnds == [r : {0, 1}, u0 : AuxRand, u1 : AuxRand, cf : AuxRand]

\* the account's key pair: x = 1, Y = x*G
AccountKey == 1

AddAsset ==
    /\ pc = "start"
    /\ Len(assets) < MaxAssets
    /\ \E held \in BOOLEAN, bal \in AssetBalances, rnd \in AssetRnds :
          assets' = Append(assets,
                           [held |-> held, bal |-> bal,
                            proof |-> AssetProof_create(held, AccountKey,
                                                        point_mul(PointG, AccountKey),
                                                        bal, PointG, PointH, rnd, hkey)])
    /\ rngCalls' = rngCalls + 9
    /\ UNCHANGED <<assetVars, codecVars, algebraVars, builderVars,
                   pc, hkey, result, liabs, solv, binaryVars, schnorrVars, liabilityVars>>

AddLiability ==
    /\ pc = "start"
    /\ Len(liabs) < MaxLiabs
    /\ \E identifier \in Ids, bal \in CustBalances,
          rnds \in [1 .. BALANCE_BITS -> SolvBitRnds] :
          liabs' = Append(liabs,
                          [identifier |-> identifier, bal |-> bal,
                           proof |-> LiabilityProof_create(identifier, bal, PointG, PointH,
                                                           rnds, 1, hkey)])
    /\ rngCalls' = rngCalls + 4 * BALANCE_BITS + 1
    /\ UNCHANGED <<assetVars, codecVars, algebraVars, builderVars,
                   pc, hkey, result, assets, solv, binaryVars, schnorrVars, liabilityVars>>

SolvencyCreate ==
    /\ pc = "start"
    /\ \E nonce \in SolvRand :
          LET sv == SolvencyProof_create([i \in 1 .. Len(assets) |-> assets[i].proof],
                                         [i \in 1 .. Len(liabs) |-> liabs[i].proof],
                                         PointH, nonce, hkey)
          IN IF SolvencyProof_create_panics(sv)
             THEN /\ solv' = NoProof
                  /\ result' = "panic"
                  /\ pc' = "failed"
             ELSE /\ solv' = sv
                  /\ result' = None
                  /\ pc' = "created"
    /\ rngCalls' = rngCalls + 1
    /\ UNCHANGED <<assetVars, codecVars, algebraVars, builderVars,
                   hkey, assets, liabs, binaryVars, schnorrVars, liabilityVars>>

SolvencyVerify ==
    /\ pc = "created"
    /\ result' = SolvencyProof_verify(solv, hkey)
    /\ pc' = "verified"
    /\ UNCHANGED <<assetVars, codecVars, algebraVars, builderVars,
                   hkey, rngCalls, assets, liabs, solv, binaryVars, schnorrVars,
                   liabilityVars>>

NextSolvency == AddAsset \/ AddLiability \/ SolvencyCreate \/ SolvencyVerify

SpecSolvency == Init /\ [][NextSolvency]_vars

(***************************************************************************)
(* AssetProof: create, verify; a verifier handed a proof with one response *)
(* scalar replaced.                                                        *)
(***************************************************************************)
\* private keys tried: 1 (as in the tests), 2 and q-1
AssetKeys == {1, 2, p - 1}

\* the private key of a public key Y that is not x*G for any x tried
OtherKey == 3

\* balances tried: 0 (B is the identity), 1 (B = G) and 4
AssetBals == {0, 1, 4}

\* the draws t, u1..u4; the draws of the inner BinaryProof are over AuxRand
AssetAux == {0, 1}

AssetDraws ==
    [v : Rand, t : AssetAux, u1 : AssetAux, u2 : AssetAux, u3 : AssetAux,
     u4 : AssetAux, u0b : AuxRand, u1b : AuxRand, cfb : AuxRand]

AssetCreate ==
    /\ pc = "start"
    /\ \E x_is_some \in BOOLEAN, x \in AssetKeys, own \in BOOLEAN, bal \in AssetBals,
          rnd \in AssetDraws :
          LET y == point_mul(PointG, IF own THEN x ELSE OtherKey)
              ap == AssetProof_create(x_is_some, x, y, bal, PointG, PointH, rnd, hkey)
          IN /\ ainput' = [kind |-> "asset", x_is_some |-> x_is_some, x |-> x,
                           y |-> y, bal |-> bal, v |-> rnd.v]
             /\ IF AssetProof_create_panics(ap)
                THEN /\ aproof' = NoProof
                     /\ result' = "panic"
                     /\ pc' = "failed"
                ELSE /\ aproof' = ap
                     /\ result' = None
                     /\ pc' = "created"
    /\ rngCalls' = rngCalls + 9
    /\ UNCHANGED <<hkey, tampered, codecVars, algebraVars, builderVars, binput, bproof,
                   schnorrVars, liabilityVars, solvencyVars>>

\* the response scalars a verifier may be handed altered
AssetFields == {"rs", "rv", "rt", "rxhat", "r1"}

AssetProof_alter(ap, field) ==
    CASE field = "rs" -> [ap EXCEPT !.rs = FAdd(@, 1)]
      [] field = "rv" -> [ap EXCEPT !.rv = FAdd(@, 1)]
      [] field = "rt" -> [ap EXCEPT !.rt = FAdd(@, 1)]
      [] field = "rxhat" -> [ap EXCEPT !.rxhat = FAdd(@, 1)]
      [] field = "r1" -> [ap EXCEPT !.balance_comm.r1 = FAdd(@, 1)]

AssetTamper ==
    /\ pc = "created"
    /\ aproof.kind = "asset"
    /\ ~tampered
    /\ \E field \in AssetFields : aproof' = AssetProof_alter(aproof, field)
    /\ tampered' = TRUE
    /\ UNCHANGED <<pc, hkey, rngCalls, result, ainput, codecVars, algebraVars, builderVars,
                   binput, bproof, schnorrVars, liabilityVars, solvencyVars>>

AssetVerify ==
    /\ pc = "created"
    /\ aproof.kind = "asset"
    /\ result' = AssetProof_verify(aproof, hkey)
    /\ pc' = "verified"
    /\ UNCHANGED <<hkey, rngCalls, assetVars, codecVars, algebraVars, builderVars,
                   binaryVars, schnorrVars, liabilityVars, solvencyVars>>

AssetSerialize ==
    /\ pc = "created"
    /\ aproof.kind = "asset"
    /\ ~tampered
    /\ wire' = AssetProof_serialize(aproof)
    /\ pc' = "serialized"
    /\ UNCHANGED <<hkey, rngCalls, result, tampered, decoded, assetVars, algebraVars,
                   builderVars, binput, bproof, schnorrVars, liabilityVars, solvencyVars>>

AssetDeserialize ==
    /\ pc = "serialized"
    /\ aproof.kind = "asset"
    /\ LET ap == AssetProof_deserialize(wire)
       IN IF AssetProof_deserialize_panics(ap)
          THEN /\ decoded' = NoProof
               /\ result' = "panic"
               /\ pc' = "failed"
          ELSE /\ decoded' = ap
               /\ result' = None
               /\ pc' = "decoded"
    /\ UNCHANGED <<hkey, rngCalls, tampered, wire, assetVars, algebraVars, builderVars,
                   binput, bproof, schnorrVars, liabilityVars, solvencyVars>>

AssetVerifyDecoded ==
    /\ pc = "decoded"
    /\ result' = AssetProof_verify(decoded, hkey)
    /\ pc' = "verified"
    /\ UNCHANGED <<hkey, rngCalls, assetVars, codecVars, algebraVars, builderVars,
                   binaryVars, schnorrVars, liabilityVars, solvencyVars>>

NextAsset ==
    \/ AssetCreate
    \/ AssetTamper
    \/ AssetVerify
    \/ AssetSerialize
    \/ AssetDeserialize
    \/ AssetVerifyDecoded

SpecAsset == Init /\ [][NextAsset]_vars

\* sum of the balances of the held accounts, sum of the customer balances
HeldSum == SumSeq([i \in 1 .. Len(assets) |-> IF assets[i].held THEN assets[i].bal ELSE 0])
CustSum == SumSeq([i \in 1 .. Len(liabs) |-> liabs[i].bal])

(***************************************************************************)
(* Point and field algebra: the free functions of secp256k1.rs and the     *)
(* byte conversions of Field256, each applied once to enumerated inputs.   *)
(***************************************************************************)
\* points multiplied: G, H, G + H, Point::infinity() and 0*H
AlgPoints ==
    {PointG, PointH, point_add(PointG, PointH), Point_infinity, point_mul(PointH, 0)}

\* let out = point_mul(P, k)
AlgMul ==
    /\ pc = "start"
    /\ \E P \in AlgPoints, k \in Fq :
          alg' = [kind |-> "mul", P |-> P, k |-> k, out |-> point_mul(P, k)]
    /\ pc' = "done"
    /\ UNCHANGED <<hkey, rngCalls, result, binaryVars, schnorrVars, liabilityVars,
                   solvencyVars, assetVars, codecVars, builderVars>>

\* lhs = pedersen(g,x1,h,r1) + pedersen(g,x2,h,r2),
\* rhs = pedersen(g, x1 + x2, h, r1 + r2), compared with ==
AlgPedersen ==
    /\ pc = "start"
    /\ \E x1 \in Rand, r1 \in Rand, x2 \in Rand, r2 \in Rand :
          LET lhs == point_add(pedersen_commitment(PointG, x1, PointH, r1),
                               pedersen_commitment(PointG, x2, PointH, r2))
              rhs == pedersen_commitment(PointG, FAdd(x1, x2), PointH, FAdd(r1, r2))
          IN alg' = [kind |-> "pedersen", x1 |-> x1, r1 |-> r1, x2 |-> x2, r2 |-> r2,
                     lhs |-> lhs, rhs |-> rhs, eq |-> check_eq(lhs, rhs)]
    /\ pc' = "done"
    /\ UNCHANGED <<hkey, rngCalls, result, binaryVars, schnorrVars, liabilityVars,
                   solvencyVars, assetVars, codecVars, builderVars>>

\* bytes = s.to_big_endian(); back = Field256::from_bytes_be(&bytes)
AlgFieldBytes ==
    /\ pc = "start"
    /\ \E s \in Fq :
          alg' = [kind |-> "field", s |-> s, bytes |-> to_big_endian(s),
                  back |-> Field256_from_bytes_be(to_big_endian(s))]
    /\ pc' = "done"
    /\ UNCHANGED <<hkey, rngCalls, result, binaryVars, schnorrVars, liabilityVars,
                   solvencyVars, assetVars, codecVars, builderVars>>

\* values and lengths handed to biguint_to_bits_le; values from 2^ByteBits
\* on take two bytes
MaxBitValue == 20
MaxBitLen == 5

\* let bits = biguint_to_bits_le(&value, len)
AlgBits ==
    /\ pc = "start"
    /\ \E value \in 0 .. MaxBitValue, len \in 0 .. MaxBitLen :
          alg' = [kind |-> "bits", value |-> value, len |-> len,
                  bits |-> biguint_to_bits_le(value, len)]
    /\ pc' = "done"
    /\ UNCHANGED <<hkey, rngCalls, result, binaryVars, schnorrVars, liabilityVars,
                   solvencyVars, assetVars, codecVars, builderVars>>

\* signed integers converted with From<i8> / From<i32>
MaxSigned == 18

\* the constructors and operators of Field256 on scalars a, b, the
\* unreduced product a * b and a signed integer n
AlgArith ==
    /\ pc = "start"
    /\ \E a \in Fq, b \in Fq, n \in (0 - MaxSigned) .. MaxSigned :
          alg' = [kind |-> "arith", a |-> a, b |-> b, n |-> n,
                  new |-> Field256_new(a * b),
                  from_bytes |-> Field256_from_bytes_be(to_bytes_be(a * b)),
                  from |-> Field256_from(n),
                  add |-> FAdd(a, b), sub |-> FSub(a, b), mul |-> FMul(a, b),
                  neg |-> FNeg(a)]
    /\ pc' = "done"
    /\ UNCHANGED <<hkey, rngCalls, result, binaryVars, schnorrVars, liabilityVars,
                   solvencyVars, assetVars, codecVars, builderVars>>

(***************************************************************************)
(* Point::inverse and Point::sub work on the coordinates of the PublicKey. *)
(* For them a PublicKey is an affine point <<x, y>> of a curve over the    *)
(* base field F_FIELD_PRIME whose group has CURVE_ORDER points             *)
(* (y^2 = x^3 + 2x + 10 over F_19 has 17); <<0, 0>> is not on the curve    *)
(* and stands for a panic.                                                 *)
(***************************************************************************)
\* field_order(): the prime of the base field, scaled
FIELD_PRIME == 19

\* PublicKey::from_slice accepts the coordinates of a curve point only
on_curve(x, y) ==
    (y * y) % FIELD_PRIME = (x * x * x + 2 * x + 10) % FIELD_PRIME

CurveKeys ==
    {k \in (0 .. (FIELD_PRIME - 1)) \X (0 .. (FIELD_PRIME - 1)) : on_curve(k[1], k[2])}

\* PublicKey::combine on coordinates; <<0, 0>> is the error returned when
\* the sum is the point at infinity
Key_combine(a, b) ==
    IF a[1] = b[1] /\ (a[2] + b[2]) % FIELD_PRIME = 0 THEN <<0, 0>>
    ELSE LET num == IF a = b THEN 3 * a[1] * a[1] + 2 ELSE b[2] - a[2]
             den == IF a = b THEN 2 * a[2] ELSE b[1] - a[1]
             inv == CHOOSE k \in 0 .. (FIELD_PRIME - 1) : (k * den) % FIELD_PRIME = 1
             lam == (num * inv) % FIELD_PRIME
             x3 == (lam * lam - a[1] - b[1]) % FIELD_PRIME
         IN <<x3, (lam * (a[1] - x3) - a[2]) % FIELD_PRIME>>

\* Point::inverse: y = Field256::from_bytes_be(&sec[33..]), the bytes of -y
\* are written back and PublicKey::from_slice(..).expect("point to be
\* valid"); the result is never flagged as the identity
Point_inverse(P) ==
    LET y_inv == FNeg(Field256_from_bytes_be(to_big_endian(P.xy[2])))
    IN IF P.xy = <<0, 0>> \/ ~on_curve(P.xy[1], y_inv)
       THEN [xy |-> <<0, 0>>, infinity |-> FALSE]
       ELSE [xy |-> <<P.xy[1], y_inv>>, infinity |-> FALSE]

\* Point::sub: self.add(&other.inverse()), with the branches of Point::add
Point_sub(P, Q) ==
    LET other == Point_inverse(Q)
    IN IF P.xy = <<0, 0>> \/ other.xy = <<0, 0>> THEN [xy |-> <<0, 0>>, infinity |-> FALSE]
       ELSE IF P.infinity THEN other
       ELSE IF other.infinity THEN P
       ELSE [xy |-> Key_combine(P.xy, other.xy), infinity |-> FALSE]

\* let inv = Q.inverse(); P.sub(&Q), for points P, Q with or without the
\* identity flag
AlgSub ==
    /\ pc = "start"
    /\ \E P \in [xy : CurveKeys, infinity : BOOLEAN],
          Q \in [xy : CurveKeys, infinity : BOOLEAN] :
          alg' = [kind |-> "sub", P |-> P, Q |-> Q, inv |-> Point_inverse(Q),
                  out |-> Point_sub(P, Q)]
    /\ pc' = "done"
    /\ UNCHANGED <<hkey, rngCalls, result, binaryVars, schnorrVars, liabilityVars,
                   solvencyVars, assetVars, codecVars, builderVars>>

NextAlgebra ==
    AlgMul \/ AlgPedersen \/ AlgFieldBytes \/ AlgBits \/ AlgArith \/ AlgSub

SpecAlgebra == Init /\ [][NextAlgebra]_vars

(***************************************************************************)
(* ProofBuilder and LiabilityProofBuilder over the in-memory data sources  *)
(* of their tests: build() loops over next() / put_proof().                *)
(***************************************************************************)
\* records a source is constructed with
MaxRecords == 2

\* AssetData = (Option<Field256>, Point, BigUint); gen_assets uses
\* (Some(1), 1*G, bal)
BuilderAssets ==
    {[x_is_some |-> TRUE, x |-> 1, y |-> point_mul(PointG, 1), bal |-> 1],
     [x_is_some |-> FALSE, x |-> 0, y |-> point_mul(PointG, 2), bal |-> 4]}

\* LiabilityData = (Vec<u8>, BigUint)
BuilderLiabilities ==
    {[identifier |-> <<1>>, balance |-> 1], [identifier |-> <<2>>, balance |-> 2]}

\* MemoryAssetDataSource::new / MemoryLiabilityDataSource::new; `initial`
\* keeps the vector the test generated
MemoryDataSource_new(kind, records) ==
    [kind |-> kind, initial |-> records, records |-> records, proofs |-> <<>>,
     item |-> NoProof]

\* next_asset / next: remove(0) of a non-empty vector, else None (NoProof)
MemoryDataSource_next(src) ==
    IF Len(src.records) > 0
    THEN [src EXCEPT !.item = Head(src.records), !.records = Tail(src.records)]
    ELSE [src EXCEPT !.item = NoProof]

\* mutant of MemoryDataSource_put_proof: every proof is stored in the same
\* slot
MemoryDataSource_put_proof_mut(src, proof) ==
    [src EXCEPT !.proofs = <<proof>>, !.item = NoProof]

\* put_proof: self.proofs.push(proof); the pulled record has been consumed
MemoryDataSource_put_proof(src, proof) ==
    [src EXCEPT !.proofs = Append(src.proofs, proof), !.item = NoProof]

LiabilityProof_create_panics(lp) ==
    \E i \in 1 .. Len(lp.bits) : BinaryProof_create_panics(lp.bits[i])

\* the proof build() creates for the pulled record
Builder_create(src, arnd, brnd, n, key) ==
    IF src.kind = "asset"
    THEN AssetProof_create(src.item.x_is_some, src.item.x, src.item.y, src.item.bal,
                           PointG, PointH, arnd, key)
    ELSE LiabilityProof_create(src.item.identifier, src.item.balance, PointG, PointH,
                               [i \in 1 .. BALANCE_BITS |-> brnd], n, key)

\* the test body up to builder.build()
BuilderNew ==
    /\ pc = "start"
    /\ \E k \in 0 .. MaxRecords :
          \/ \E records \in [1 .. k -> BuilderAssets] :
                ds' = MemoryDataSource_new("asset", records)
          \/ \E records \in [1 .. k -> BuilderLiabilities] :
                ds' = MemoryDataSource_new("liability", records)
    /\ pc' = "loop"
    /\ UNCHANGED <<hkey, rngCalls, result, binaryVars, schnorrVars, liabilityVars,
                   solvencyVars, assetVars, codecVars, algebraVars>>

\* match self.ds.next() { None => break, Some(..) => .. }
BuilderNext ==
    /\ pc = "loop"
    /\ ds' = MemoryDataSource_next(ds)
    /\ pc' = IF MemoryDataSource_next(ds).item = NoProof THEN "done" ELSE "some"
    /\ UNCHANGED <<hkey, rngCalls, result, binaryVars, schnorrVars, liabilityVars,
                   solvencyVars, assetVars, codecVars, algebraVars>>

\* the Some arm: create the proof, put_proof(proof).expect("put works").
\* The draws of create: v and the other draws of AssetProof::create; one
\* (r, u0, u1, cf) used for every bit and n of LiabilityProof::create
BuilderCreatePut ==
    /\ pc = "some"
    /\ \E arnd \in [v : {0, 1}, t : AuxRand, u1 : AuxRand, u2 : AuxRand, u3 : AuxRand,
                     u4 : AuxRand, u0b : AuxRand, u1b : AuxRand, cfb : AuxRand],
          brnd \in [r : {1, 2}, u0 : AuxRand, u1 : AuxRand, cf : AuxRand],
          n \in {1, 2} :
          LET proof == Builder_create(ds, arnd, brnd, n, hkey)
          IN IF \/ ds.kind = "asset" /\ AssetProof_create_panics(proof)
                \/ ds.kind = "liability" /\ LiabilityProof_create_panics(proof)
             THEN /\ ds' = ds
                  /\ pc' = "panicked"
             ELSE /\ ds' = MemoryDataSource_put_proof(ds, proof)
                  /\ pc' = "loop"
    /\ rngCalls' = rngCalls + (IF ds.kind = "asset" THEN 9 ELSE 4 * BALANCE_BITS + 1)
    /\ UNCHANGED <<hkey, result, binaryVars, schnorrVars, liabilityVars,
                   solvencyVars, assetVars, codecVars, algebraVars>>

NextBuilder == BuilderNew \/ BuilderNext \/ BuilderCreatePut

SpecBuilder == Init /\ [][NextBuilder]_vars

\* the proof stored for a record: an AssetProof carries the record's y and
\* bal*G, a LiabilityProof the digest of the record's identifier and its n
ProofIsFor(kind, proof, rec) ==
    IF kind = "asset"
    THEN proof.kind = "asset" /\ proof.y = rec.y
         /\ proof.b = point_mul(PointG, Field256_new(rec.bal))
    ELSE proof.kind = "liability" /\ proof.cid = compute_cid(rec.identifier, proof.n)

(***************************************************************************)
(* Claims                                                                  *)
(***************************************************************************)

\* C7: every honestly created BinaryProof (x in {0,1}, any blinding y, any
\* prover randomness) verifies
C7_BinaryCompleteness ==
    (pc = "verified" /\ bproof.kind = "binary" /\ ~tampered) => result = "true"

\* C8: BinaryProof.create with x outside {0,1} fails before any randomness
\* is drawn or any commitment computed, and returns no proof
C8_NonBinaryRejected ==
    (binput.kind = "binary" /\ ~(binput.x \in {0, 1}))
        => (pc = "failed" /\ result = "panic" /\ bproof = NoProof /\ rngCalls = 0)

C8_Witness == pc = "failed" /\ binput.kind = "binary" /\ binput.x = 2

\* C9: an honest BinaryProof whose r1 was replaced by a different scalar
\* makes verify() return false
C9_TamperedR1Rejected ==
    (pc = "verified" /\ bproof.kind = "binary" /\ tampered) => result = "false"

\* C10: SchnorrProof.create(x, g, x*g).verify() returns true for every x,
\* generator and nonce
C10_SchnorrCompleteness ==
    (pc = "verified" /\ sproof.kind = "schnorr") => result = "true"

\* C1: when the held accounts sum to the customer total, the solvency proof
\* built over the honest asset and liability proofs is not rejected: once
\* create() has returned a proof, verify() does not return false
C1_SolvencyCompleteness ==
    (/\ pc = "verified"
     /\ Len(assets) >= 1
     /\ Len(liabs) >= 1
     /\ HeldSum = CustSum) => result # "false"

\* C2: when the held accounts sum to strictly less than the customer total,
\* the solvency proof is not accepted
C2_SolvencySoundness ==
    (pc \in {"verified", "failed"} /\ HeldSum < CustSum) => result # "true"

\* C3: a not-held account's inner commitment has no G-component, and with
\* not-held accounts added to held accounts that sum to the customer total
\* the solvency proof is still not rejected by verify()
C3_NotHeldContributesNothing ==
    /\ \A i \in 1 .. Len(assets) :
          ~assets[i].held =>
              (p_ref(assets[i].proof).infinity \/ p_ref(assets[i].proof).pk[1] = 0)
    /\ (/\ pc = "verified"
        /\ Len(liabs) >= 1
        /\ HeldSum = CustSum
        /\ \E i \in 1 .. Len(assets) : ~assets[i].held)
           => result # "false"

\* C4: for every identifier and every balance in [0, 2^BALANCE_BITS) the
\* created LiabilityProof passes verify() and verify_as_customer(id, bal):
\* neither of them returns false
C4_LiabilityCompleteness ==
    (/\ pc = "verified"
     /\ lin.kind = "liability"
     /\ lin.balance < Pow2(BALANCE_BITS)
     /\ \/ lquery.kind = "public"
        \/ /\ lquery.kind = "customer"
           /\ lquery.identifier = lin.identifier
           /\ lquery.balance = lin.balance)
        => result # "false"

\* C5: customer verification returns false for another identifier and for
\* balance + 1
C5_WrongClaimRejected ==
    (/\ pc = "verified"
     /\ lin.kind = "liability"
     /\ lquery.kind = "customer"
     /\ lin.balance + 1 < Pow2(BALANCE_BITS)
     /\ \/ lquery.identifier # lin.identifier /\ lquery.balance = lin.balance
        \/ lquery.identifier = lin.identifier /\ lquery.balance = lin.balance + 1)
        => result = "false"

\* C6: LiabilityProof.create with a balance >= 2^BALANCE_BITS fails with
\* BalanceOverflow and produces no proof
C6_BalanceOverflowRejected ==
    (lin.kind = "liability" /\ lin.balance >= Pow2(BALANCE_BITS))
        => (lproof = NoProof /\ pc # "created")

\* C11: every honestly created AssetProof (key supplied or withheld, any
\* balance including 0, any prover randomness) verifies
C11_AssetCompleteness ==
    (/\ pc = "verified"
     /\ aproof.kind = "asset"
     /\ ainput.y = point_mul(PointG, ainput.x)
     /\ ~tampered
     /\ decoded = NoProof) => result = "true"

\* C12: AssetProof::deserialize(p.serialize()) equals the honest proof p
\* field for field, inner binary proof included, and verifies
C12_AssetRoundTrip ==
    (ainput.kind = "asset" /\ ainput.y = point_mul(PointG, ainput.x)) =>
        /\ (pc \in {"decoded", "verified"} /\ decoded # NoProof) => decoded = aproof
        /\ (pc = "verified" /\ decoded # NoProof) => result = "true"
        /\ (pc = "failed" /\ aproof # NoProof) => decoded # NoProof

\* C18: no point whose identity flag is set is handed to serialization
C18_IdentityNeverSerialized ==
    (pc = "serialized" /\ aproof.kind = "asset")
        => \A i \in 1 .. Len(AssetProof_wire_points(aproof)) :
               ~AssetProof_wire_points(aproof)[i].infinity

\* C13: verify() returns a boolean for every proof value and never panics,
\* also when a point sum inside the check is the identity
C13_VerifyNeverPanics ==
    (pc = "verified" /\ bproof.kind = "binary") => result \in {"true", "false"}

\* C14: under the code's point equality, 0*P and k*O equal Point::infinity()
\* and 1*P equals P, for every point P and scalar k; in particular identity
\* points produced in different ways are equal
C14_ScalarMulIdentities ==
    (alg.kind = "mul") =>
        /\ (alg.k = 0 \/ alg.P.infinity) => alg.out = Point_infinity
        /\ (alg.k = 1) => alg.out = alg.P

\* C15: pedersen(g,x1,h,r1) + pedersen(g,x2,h,r2) == pedersen(g,x1+x2,h,r1+r2)
\* for all scalars, sums that are 0 or the identity included
C15_PedersenHomomorphism ==
    (alg.kind = "pedersen") => alg.eq = "true"

\* C16: to_big_endian(s) is FIELD_BYTES long, equals the big-endian digits of
\* s after leading zeros, and from_bytes_be reads it back as s, for every s
\* in [0, q)
C16_FieldRoundTrip ==
    (alg.kind = "field") =>
        /\ Len(alg.bytes) = FIELD_BYTES
        /\ \A i \in 1 .. FIELD_BYTES : alg.bytes[i] \in 0 .. (Pow2(ByteBits) - 1)
        /\ BigUint_from_bytes_be(alg.bytes) = alg.s
        /\ alg.back = alg.s

\* a scalar that needs fewer than FIELD_BYTES bytes was converted and read back
C16_Witness ==
    alg.kind = "field" /\ alg.s = 5 /\ alg.bytes = <<0, 1, 1>> /\ pc = "done"

\* C17: serialize() of an honestly created LiabilityProof has exactly the
\* documented length (cid, BALANCE_BITS bit proofs, n, r), whatever the
\* numeric size of the aggregated blinding r
C17_LiabilityLengthExact ==
    (pc = "serialized" /\ lproof.kind = "liability") => Len(wire) = LIABILITY_BYTES

\* C19: AssetProof::verify returns true only if its three equations hold and
\* the inner BinaryProof verifies, and a proof with a failing check is
\* answered with false
C19_NoPartialAcceptance ==
    (pc = "verified" /\ aproof.kind = "asset" /\ decoded = NoProof) =>
        /\ (result = "true") =>
               \A i \in 1 .. 4 : AssetProof_checks(aproof, hkey)[i] = "true"
        /\ (\E i \in 1 .. 4 : AssetProof_checks(aproof, hkey)[i] = "false") =>
               result = "false"

\* C20: build() stores the proof of a pulled record before it pulls the
\* next one, and when it returns the source is empty and holds exactly one
\* proof per initial record, in pull order
C20_BuilderDrain ==
    (ds.kind \in {"asset", "liability"}) =>
        /\ Len(ds.proofs) + Len(ds.records) + (IF ds.item = NoProof THEN 0 ELSE 1)
               = Len(ds.initial)
        /\ (ds.item # NoProof) =>
               ds.item = ds.initial[Len(ds.initial) - Len(ds.records)]
        /\ \A i \in 1 .. Len(ds.proofs) : ProofIsFor(ds.kind, ds.proofs[i], ds.initial[i])
        /\ (pc = "done") => (ds.records = <<>> /\ Len(ds.proofs) = Len(ds.initial))

\* build() returned after draining a source of two different records
C20_Witness ==
    /\ pc = "done"
    /\ ds.kind = "asset"
    /\ Len(ds.initial) = 2
    /\ ds.initial[1] # ds.initial[2]
    /\ Len(ds.proofs) = 2
    /\ ds.records = <<>>

\* C21: biguint_to_bits_le(value, len) returns exactly len bits, the
\* little-endian binary digits of value mod 2^len
C21_BitDecomposition ==
    (alg.kind = "bits") =>
        /\ Len(alg.bits) = alg.len
        /\ bits_value(alg.bits) = alg.value % Pow2(alg.len)

\* C25: every Field256 produced by new, from_bytes_be, From<signed>, +, -, *
\* and neg lies in [0, q); a negative integer above -q maps to itself plus
\* q; neg(0) = 0; a - a = 0; a - b = (a + q - b) mod q
C25_ScalarRange ==
    (alg.kind = "arith") =>
        /\ {alg.new, alg.from_bytes, alg.from, alg.add, alg.sub, alg.mul, alg.neg}
              \subseteq Fq
        /\ (alg.n < 0 /\ alg.n >= 0 - p) => alg.from = alg.n + p
        /\ (alg.n >= 0 /\ alg.n < p) => alg.from = alg.n
        /\ (alg.a = 0) => alg.neg = 0
        /\ (alg.a = alg.b) => alg.sub = 0
        /\ alg.sub = (alg.a + p - alg.b) % p
        /\ (alg.neg + alg.a) % p = 0
        /\ alg.new = (alg.a * alg.b) % p
        /\ alg.from_bytes = alg.new

\* From(-1) and a - a were computed
C25_Witness ==
    /\ pc = "done"
    /\ alg.kind = "arith"
    /\ alg.n = -1
    /\ alg.from = p - 1
    /\ alg.a = alg.b
    /\ alg.a # 0

\* C22: for a non-identity point Q = (x, y), Point::inverse(Q) is the curve
\* point (x, p - y) with p the prime of the base field, and Q + inverse(Q)
\* is the identity
C22_NegationInBaseField ==
    (alg.kind = "sub" /\ ~alg.Q.infinity) =>
        /\ alg.inv.xy = <<alg.Q.xy[1], (FIELD_PRIME - alg.Q.xy[2]) % FIELD_PRIME>>
        /\ on_curve(alg.inv.xy[1], alg.inv.xy[2])
        /\ (alg.P = alg.Q) => alg.out.infinity

\* C29: for an identity point O, P.sub(O) == P for every point P (so
\* O.sub(O) is an identity point): inverse keeps the identity
C29_SubIdentity ==
    (alg.kind = "sub" /\ alg.Q.infinity) =>
        /\ alg.inv.infinity
        /\ alg.out = alg.P

\* C24: the customer identifier of a created LiabilityProof is the hash of
\* the identifier bytes followed by the salt n as exactly FIELD_BYTES
\* big-endian bytes, left-padded with zeros
C24_CidPaddedSalt ==
    (lproof.kind = "liability") =>
        lproof.cid = Sha256(lin.identifier \o biguint_to_bytes_be(lproof.n, FIELD_BYTES))

\* C27: when the held balances sum to strictly more than the customer
\* balances (difference not a multiple of q), the solvency proof created
\* over the honest proofs is rejected: verify() returns false
C27_SurplusRejected ==
    (/\ pc = "verified"
     /\ solv.kind = "solvency"
     /\ HeldSum > CustSum
     /\ (HeldSum - CustSum) % p # 0) => result = "false"

\* C26: an AssetProof created with a supplied key x and a public key Y that
\* is not x*G is not accepted, and one created with x = None verifies for
\* any Y
C26_KeyKnowledgeBinding ==
    (pc = "verified" /\ aproof.kind = "asset" /\ ~tampered /\ decoded = NoProof) =>
        /\ (ainput.x_is_some /\ ainput.y # point_mul(PointG, ainput.x))
               => result # "true"
        /\ (~ainput.x_is_some) => result = "true"

\* C23: however the bit positions are split into contiguous chunks, folded in
\* any interleaving and reduced pairwise, the created proof holds the proof
\* of bit i at index i, made with the blinding drawn for position i, and its
\* r is the integer sum of r_i * 2^i of those blindings, not reduced mod q
C23_ScheduleIndependent ==
    (pc = "created" /\ lin.kind = "parallel") =>
        /\ Len(lproof.bits) = BALANCE_BITS
        /\ \A i \in 0 .. (BALANCE_BITS - 1) :
              lproof.bits[i + 1] =
                  BinaryProof_create(Field256_from(lin.bits[i + 1]), lin.rnds[i + 1].r,
                                     PointG, PointH, lin.rnds[i + 1].u0,
                                     lin.rnds[i + 1].u1, lin.rnds[i + 1].cf, hkey)
        /\ LET sum[i \in 0 .. BALANCE_BITS] ==
                   IF i = 0 THEN 0 ELSE sum[i - 1] + lin.rnds[i].r * Pow2(i - 1)
           IN lproof.r = sum[BALANCE_BITS]
        /\ lproof = LiabilityProof_create(lin.identifier, lin.balance, PointG, PointH,
                                          lin.rnds, lproof.n, hkey)

\* a proof made from three or more chunks folded out of position order, with
\* a sum of blindings above q
C23_Witness ==
    /\ pc = "created"
    /\ lin.kind = "parallel"
    /\ lin.chunks >= 3
    /\ lin.out_of_order
    /\ lin.balance = 6
    /\ lproof.r >= p
    /\ lproof.bits[1] # lproof.bits[4]

\* C28: the bit vector LiabilityProof::create folds over and every
\* LiabilityProof that create or deserialize returns have exactly
\* BALANCE_BITS entries (51 in the code), whatever the balance
C28_BitCountFixed ==
    /\ (lin.kind = "parallel") => Len(lin.bits) = BALANCE_BITS
    /\ (lin.kind = "parallel" /\ lproof.kind = "liability") =>
           DOMAIN lproof.bits = 1 .. BALANCE_BITS
    /\ (lin.kind = "parallel" /\ decoded.kind = "liability") =>
           DOMAIN decoded.bits = 1 .. BALANCE_BITS

\* a proof created for a balance above the range and decoded from its bytes
C28_Witness ==
    /\ pc = "decoded"
    /\ lproof.kind = "liability"
    /\ decoded.kind = "liability"
    /\ lin.balance >= Pow2(BALANCE_BITS)
    /\ Len(decoded.bits) = Len(lproof.bits)

====
